---- MODULE Spec2Model ----
(***************************************************************************)
(* Model of moneymoney_update_category.py: one run of the script.          *)
(*                                                                         *)
(* The run is a straight-line pipeline: the provider / credential          *)
(* pre-flight, the export of the transactions through osascript, the       *)
(* batch classification by the AI backend, the write-back of every         *)
(* returned category through osascript, and the final summary.  The        *)
(* environment (configuration, what osascript answers, what the backend    *)
(* answers) is chosen nondeterministically from small sets.                *)
(***************************************************************************)
EXTENDS Integers, Sequences, FiniteSets, TLC

(* ---- bounds of the model ---- *)
\* largest number of transactions in an exported plist
MaxTrx == 2
\* largest number of entries in the backend's "categorized_transactions"
MaxEntries == 2

(* ---- configuration (lines 12-23) ---- *)
AVAILABLE_CATEGORIES ==
    {"Uncategorized", "Auto", "Family", "Health & Personal Care",
     "Household & Home", "Leisure & Entertainment", "Miscellaneous", "Pets",
     "Shopping", "Tax", "Travel & Transportation", "AVC", "Pension",
     "Real Estate", "Rental Income", "Savings", "Online Services", "Deposit",
     "Insurance", "Business Expenses", "Utilities", "Investments"}

\* the providers the pre-flight of lines 132-154 has a branch for
SupportedProviders == {"openai", "anthropic", "deepseek"}

\* values AI_PROVIDER is given in the model: the supported ones and another
ProviderChoices == SupportedProviders \cup {"mistral"}

\* what os.getenv yields for the credential variable of the selected provider
EnvValues == {"unset", "empty", "set"}

\* category labels a backend answers with: one allowed, one not in the list
AnsweredCategories == {"Auto", "Groceries"}

(* ---- the data the environment hands to the script ---- *)
\* value of trx.get('booked'): the flag, or None when the key is missing
BookedValues == {"true", "false", "missing"}

\* the exported transactions: the i-th one carries identifier i
TrxLists ==
    UNION {[1..n -> BookedValues] : n \in 0..MaxTrx}

TrxOf(flags) == [i \in 1..Len(flags) |-> [id |-> i, booked |-> flags[i]]]

\* the dictionary plistlib.loads returns: its keys, and the 'transactions' list
Payloads ==
    {[creator |-> c, hasTransactions |-> FALSE, transactions |-> << >>] :
        c \in BOOLEAN}
    \cup {[creator |-> c, hasTransactions |-> TRUE, transactions |-> TrxOf(f)] :
        c \in BOOLEAN, f \in TrxLists}

EmptyPayload == [creator |-> FALSE, hasTransactions |-> FALSE, transactions |-> << >>]

\* what the osascript export process does: Popen raising, or an exit status
\* and a stdout that is empty, not a plist, or a plist
ExportProcs ==
    {[raised |-> TRUE, returncode |-> 1, stdout |-> "empty", data |-> EmptyPayload]}
    \cup {[raised |-> FALSE, returncode |-> rc, stdout |-> k, data |-> EmptyPayload] :
            rc \in {0, 1}, k \in {"empty", "garbage"}}
    \cup {[raised |-> FALSE, returncode |-> rc, stdout |-> "plist", data |-> p] :
            rc \in {0, 1}, p \in Payloads}

\* identifiers a backend may answer with: the exported ones and one more
AnsweredIds == 1..(MaxTrx + 1)

\* one element of "categorized_transactions"
Entries ==
    {[kind |-> "ok", id |-> i, category |-> c] :
        i \in AnsweredIds, c \in AnsweredCategories}
    \cup {[kind |-> k, id |-> 0, category |-> ""] :
        k \in {"no_id", "no_category", "not_object"}}

EntryLists == UNION {[1..n -> Entries] : n \in 0..MaxEntries}

\* the text the backend returns, by what json.loads makes of it
Contents ==
    {[shape |-> s, items |-> << >>] :
        s \in {"not_json", "not_object", "no_key", "not_list"}}
    \cup {[shape |-> "list", items |-> l] : l \in EntryLists}

\* the backend call: it raises, or it returns a text
Backends ==
    {[raised |-> TRUE, content |-> [shape |-> "not_json", items |-> << >>]]}
    \cup {[raised |-> FALSE, content |-> c] : c \in Contents}

\* exit status of one osascript update process
UpdateExits == {0, 1}

VARIABLES
    AI_PROVIDER,                \* the configured provider (line 15)
    api_key,                    \* os.getenv of the provider's credential variable
    ai_client,                  \* the client built by the pre-flight
    pc,                         \* position of the script
    exportProc,                 \* << >>, or <<the export process's behaviour>>
    exported_data,              \* << >> for None, or <<the parsed plist>>
    all_transactions,
    transactions_to_categorize,
    aiCalls,                    \* the backend calls made, with request and answer
    updated_transactions_map,   \* the dict, as the sequence of its items
    next_item,                  \* position of the for loop of line 182
    updateCalls,                \* the osascript update calls made
    calls,                      \* every external call, in the order issued
    printed,                    \* the messages written to standard output
    summary                     \* << >>, or <<the counts of the final summary>>

vars == <<AI_PROVIDER, api_key, ai_client, pc, exportProc, exported_data,
          all_transactions, transactions_to_categorize, aiCalls,
          updated_transactions_map, next_item, updateCalls, calls, printed,
          summary>>

(* ---- pre-flight, lines 130-154 ---- *)
\* `not os.getenv(...)`: the variable is unset or the empty string
KeyMissing_unsetOnly(v) == v = "unset"

KeyMissing(v) == v \in {"unset", "empty"}

\* the client each branch constructs
ClientOf(provider) ==
    CASE provider = "openai" -> "OpenAI"
      [] provider = "anthropic" -> "Anthropic"
      [] provider = "deepseek" -> "OpenAI@deepseek"
      [] OTHER -> "none"

(* ---- export_transactions_from_moneymoney, lines 27-53 ---- *)
\* the mutant ignores the exit status of the process
export_transactions_ignoring_returncode(proc) ==
    IF proc.raised
    THEN [data |-> << >>, msg |-> "export_exception"]
    ELSE IF proc.stdout = "empty"
    THEN [data |-> << >>, msg |-> "export_nodata"]
    ELSE IF proc.stdout = "garbage"
    THEN [data |-> << >>, msg |-> "export_exception"]
    ELSE [data |-> <<proc.data>>, msg |-> "export_ok"]

export_transactions_from_moneymoney(proc) ==
    IF proc.raised
    THEN [data |-> << >>, msg |-> "export_exception"]
    ELSE IF proc.returncode # 0
    THEN [data |-> << >>, msg |-> "export_failed"]
    ELSE IF proc.stdout = "empty"
    THEN [data |-> << >>, msg |-> "export_nodata"]
    ELSE IF proc.stdout = "garbage"
    THEN [data |-> << >>, msg |-> "export_exception"]
    ELSE [data |-> <<proc.data>>, msg |-> "export_ok"]

\* `if exported_data:` (line 158): None and the empty dict are false
Truthy_always(data) == TRUE

Truthy(data) ==
    /\ data # << >>
    /\ (data[1].creator \/ data[1].hasTransactions)

\* where the script goes after the export (line 158)
AfterExport_retry(data) == IF Truthy(data) THEN "report" ELSE "export"

AfterExport(data) == IF Truthy(data) THEN "report" ELSE "done"

\* exported_data.get('transactions', []) (line 159)
GetTransactions(data) ==
    IF data # << >> /\ data[1].hasTransactions THEN data[1].transactions ELSE << >>

\* [trx for trx in all_transactions if trx.get('booked')] (line 170)
IsBooked_all(trx) == TRUE

IsBooked(trx) == trx.booked = "true"

FilterBooked(trxs) == SelectSeq(trxs, IsBooked)

(* ---- get_ai_categories_batch, lines 55-112 ---- *)
\* input_json_list: one item per transaction handed in (lines 60-65)
InputJsonList(trxs) == [i \in 1..Len(trxs) |-> trxs[i].id]

\* position of key k in the dict's items, or 0
RECURSIVE IndexOfKey(_, _)
IndexOfKey(m, k) ==
    IF m = << >> THEN 0
    ELSE IF m[Len(m)].id = k THEN Len(m)
    ELSE IndexOfKey(SubSeq(m, 1, Len(m) - 1), k)

\* d[k] = v on a dict: a new key is appended, a known key keeps its place
DictPut(m, k, v) ==
    IF IndexOfKey(m, k) = 0
    THEN Append(m, [id |-> k, category |-> v])
    ELSE [m EXCEPT ![IndexOfKey(m, k)].category = v]

\* {item['id']: item['category'] for item in categorized_list} (line 107),
\* for a list every element of which has both keys
RECURSIVE DictOfItems(_)
DictOfItems(items) ==
    IF items = << >> THEN << >>
    ELSE DictPut(DictOfItems(SubSeq(items, 1, Len(items) - 1)),
                 items[Len(items)].id, items[Len(items)].category)

IsOkEntry(e) == e.kind = "ok"

\* the mutant keeps the well-formed entries of a list that has others too
ParseResponse_partial(content) ==
    IF content.shape \in {"not_json", "not_object", "not_list"}
    THEN [ok |-> FALSE, map |-> << >>]
    ELSE IF content.shape = "no_key"
    THEN [ok |-> TRUE, map |-> << >>]
    ELSE [ok |-> TRUE, map |-> DictOfItems(SelectSeq(content.items, IsOkEntry))]

\* lines 106-107: json.loads, .get("categorized_transactions", []), the dict
\* comprehension; ok is FALSE when one of them raises
ParseResponse(content) ==
    IF content.shape \in {"not_json", "not_object", "not_list"}
    THEN [ok |-> FALSE, map |-> << >>]
    ELSE IF content.shape = "no_key"
    THEN [ok |-> TRUE, map |-> << >>]
    ELSE IF \E i \in 1..Len(content.items) : ~IsOkEntry(content.items[i])
    THEN [ok |-> FALSE, map |-> << >>]
    ELSE [ok |-> TRUE, map |-> DictOfItems(content.items)]

\* the API the branch of lines 82-103 calls
ApiOf(provider) ==
    IF provider \in {"openai", "deepseek"} THEN "chat.completions" ELSE "messages"

\* the whole function: the call it makes, what it prints, what it returns
get_ai_categories_batch(provider, trxs, backend) ==
    LET request == InputJsonList(trxs)
        call == [api |-> ApiOf(provider), request |-> request,
                 raised |-> backend.raised, content |-> backend.content]
        parsed == ParseResponse(backend.content)
    IN  IF backend.raised
        THEN [call |-> call, msgs |-> <<"ai_error">>, map |-> << >>]
        ELSE IF ~parsed.ok
        THEN [call |-> call, msgs |-> <<"ai_call_ok", "ai_error">>, map |-> << >>]
        ELSE [call |-> call, msgs |-> <<"ai_call_ok">>, map |-> parsed.map]

(* ---- update_transaction_in_moneymoney, lines 114-126 ---- *)
\* the mutant has no try/except around subprocess.run
update_transaction_uncaught(transaction_id, new_category, rc) ==
    [call |-> [id |-> transaction_id, category |-> new_category, returncode |-> rc],
     msgs |-> << >>,
     raised |-> rc # 0]

update_transaction_in_moneymoney(transaction_id, new_category, rc) ==
    [call |-> [id |-> transaction_id, category |-> new_category, returncode |-> rc],
     msgs |-> IF rc # 0 THEN <<"update_error">> ELSE << >>,
     raised |-> FALSE]

(* ---- the final summary, lines 186-190 ---- *)
SummaryCounts_allExported(trxs, map) ==
    [exported |-> Len(trxs), updated |-> Len(trxs)]

SummaryCounts(trxs, map) ==
    [exported |-> Len(trxs), updated |-> Len(map)]

(* ---- the run ---- *)
Init ==
    /\ AI_PROVIDER \in ProviderChoices
    /\ api_key \in EnvValues
    /\ ai_client = "none"
    /\ pc = "preflight"
    /\ exportProc = << >>
    /\ exported_data = << >>
    /\ all_transactions = << >>
    /\ transactions_to_categorize = << >>
    /\ aiCalls = << >>
    /\ updated_transactions_map = << >>
    /\ next_item = 1
    /\ updateCalls = << >>
    /\ calls = << >>
    /\ printed = << >>
    /\ summary = << >>

\* lines 130-154: build the client, or print the fatal error and exit(1)
Preflight ==
    /\ pc = "preflight"
    /\ IF AI_PROVIDER \in SupportedProviders /\ ~KeyMissing(api_key)
       THEN /\ ai_client' = ClientOf(AI_PROVIDER)
            /\ pc' = "export"
            /\ printed' = printed
       ELSE /\ ai_client' = ai_client
            /\ pc' = "exit1"
            /\ printed' = Append(printed, "fatal")
    /\ UNCHANGED <<AI_PROVIDER, api_key, exportProc, exported_data,
                   all_transactions, transactions_to_categorize, aiCalls,
                   updated_transactions_map, next_item, updateCalls, calls,
                   summary>>

\* lines 156-158: the export call and the test of its result
Export ==
    /\ pc = "export"
    /\ \E proc \in ExportProcs :
         LET r == export_transactions_from_moneymoney(proc)
         IN  /\ exportProc' = <<proc>>
             /\ exported_data' = r.data
             /\ printed' = printed \o <<"step1", r.msg>>
             /\ pc' = AfterExport(r.data)
    /\ calls' = Append(calls, "export")
    /\ UNCHANGED <<AI_PROVIDER, api_key, ai_client, all_transactions,
                   transactions_to_categorize, aiCalls,
                   updated_transactions_map, next_item, updateCalls, summary>>

\* lines 159-171: the export report and the filter on the booked flag
Report ==
    /\ pc = "report"
    /\ all_transactions' = GetTransactions(exported_data)
    /\ transactions_to_categorize' = FilterBooked(GetTransactions(exported_data))
    /\ printed' = printed \o <<"export_report", "step2">>
    /\ pc' = "classify"
    /\ UNCHANGED <<AI_PROVIDER, api_key, ai_client, exportProc, exported_data,
                   aiCalls, updated_transactions_map, next_item, updateCalls,
                   calls, summary>>

\* lines 172-174: the batch goes to the backend
Classify ==
    /\ pc = "classify"
    /\ transactions_to_categorize # << >>
    /\ \E backend \in Backends :
         LET r == get_ai_categories_batch(AI_PROVIDER,
                                          transactions_to_categorize, backend)
         IN  /\ aiCalls' = Append(aiCalls, r.call)
             /\ updated_transactions_map' = r.map
             /\ printed' = printed \o r.msgs \o <<"ai_categorized">>
    /\ calls' = Append(calls, "ai")
    /\ pc' = "step3"
    /\ UNCHANGED <<AI_PROVIDER, api_key, ai_client, exportProc, exported_data,
                   all_transactions, transactions_to_categorize, next_item,
                   updateCalls, summary>>

\* lines 175-176: nothing is booked, the backend is not called
SkipClassify ==
    /\ pc = "classify"
    /\ transactions_to_categorize = << >>
    /\ printed' = Append(printed, "no_booked")
    /\ pc' = "step3"
    /\ UNCHANGED <<AI_PROVIDER, api_key, ai_client, exportProc, exported_data,
                   all_transactions, transactions_to_categorize, aiCalls,
                   updated_transactions_map, next_item, updateCalls, calls,
                   summary>>

\* lines 178-181: the header of step 3 and the test of the mapping
Step3 ==
    /\ pc = "step3"
    /\ IF updated_transactions_map = << >>
       THEN /\ printed' = printed \o <<"step3", "no_update_needed">>
            /\ pc' = "summary"
       ELSE /\ printed' = Append(printed, "step3")
            /\ pc' = "update"
    /\ next_item' = 1
    /\ UNCHANGED <<AI_PROVIDER, api_key, ai_client, exportProc, exported_data,
                   all_transactions, transactions_to_categorize, aiCalls,
                   updated_transactions_map, updateCalls, calls, summary>>

\* lines 182-183: one iteration of the loop over the mapping's items
UpdateOne ==
    /\ pc = "update"
    /\ next_item <= Len(updated_transactions_map)
    /\ \E rc \in UpdateExits :
         LET item == updated_transactions_map[next_item]
             r == update_transaction_in_moneymoney(item.id, item.category, rc)
         IN  /\ updateCalls' = Append(updateCalls, r.call)
             /\ printed' = printed \o r.msgs
             /\ pc' = IF r.raised THEN "traceback" ELSE "update"
    /\ calls' = Append(calls, "update")
    /\ next_item' = next_item + 1
    /\ UNCHANGED <<AI_PROVIDER, api_key, ai_client, exportProc, exported_data,
                   all_transactions, transactions_to_categorize, aiCalls,
                   updated_transactions_map, summary>>

\* line 184: the loop is exhausted
UpdateDone ==
    /\ pc = "update"
    /\ next_item > Len(updated_transactions_map)
    /\ printed' = Append(printed, "all_updated")
    /\ pc' = "summary"
    /\ UNCHANGED <<AI_PROVIDER, api_key, ai_client, exportProc, exported_data,
                   all_transactions, transactions_to_categorize, aiCalls,
                   updated_transactions_map, next_item, updateCalls, calls,
                   summary>>

\* lines 186-190: the final summary
Summary ==
    /\ pc = "summary"
    /\ summary' = <<SummaryCounts(all_transactions, updated_transactions_map)>>
    /\ printed' = printed \o <<"final_summary", "all_done">>
    /\ pc' = "done"
    /\ UNCHANGED <<AI_PROVIDER, api_key, ai_client, exportProc, exported_data,
                   all_transactions, transactions_to_categorize, aiCalls,
                   updated_transactions_map, next_item, updateCalls, calls>>

Next ==
    \/ Preflight
    \/ Export
    \/ Report
    \/ Classify
    \/ SkipClassify
    \/ Step3
    \/ UpdateOne
    \/ UpdateDone
    \/ Summary

Spec == Init /\ [][Next]_vars

(* ======================================================================= *)
(* The properties                                                          *)
(* ======================================================================= *)

\* the export stage failed: osascript could not be run, exited non-zero,
\* wrote nothing, or wrote something that is no plist
ExportFailed ==
    /\ exportProc # << >>
    /\ \/ exportProc[1].raised
       \/ exportProc[1].returncode # 0
       \/ exportProc[1].stdout \in {"empty", "garbage"}

HasPrinted(msg) == \E i \in 1..Len(printed) : printed[i] = msg

CountCalls(kind) == Cardinality({i \in 1..Len(calls) : calls[i] = kind})

SubmittedIds ==
    UNION {{aiCalls[i].request[j] : j \in 1..Len(aiCalls[i].request)} :
              i \in 1..Len(aiCalls)}

\* C2: the keys of the classifier's mapping are among the identifiers that
\* were submitted, and no update call is issued for another identifier.
C2_MappingKeysWereSubmitted ==
    /\ \A i \in 1..Len(updated_transactions_map) :
          updated_transactions_map[i].id \in SubmittedIds
    /\ \A i \in 1..Len(updateCalls) : updateCalls[i].id \in SubmittedIds

\* C3: every category label passed to an update call is one of
\* AVAILABLE_CATEGORIES.
C3_WrittenCategoriesAreAllowed ==
    \A i \in 1..Len(updateCalls) :
        updateCalls[i].category \in AVAILABLE_CATEGORIES

Malformed(content) ==
    \/ content.shape # "list"
    \/ \E i \in 1..Len(content.items) : content.items[i].kind # "ok"

\* C5: when the backend call fails or its response is malformed, the mapping
\* is empty, no update call is issued, and the run ends with a final summary
\* that reports Updated: 0.
C5_FailedBatchGivesEmptyMapping ==
    \A i \in 1..Len(aiCalls) :
        (aiCalls[i].raised \/ Malformed(aiCalls[i].content)) =>
            /\ updated_transactions_map = << >>
            /\ updateCalls = << >>
            /\ pc \in {"step3", "summary", "done"}
            /\ pc = "done" =>
                  /\ summary # << >>
                  /\ summary[1].updated = 0

C5_Witness ==
    /\ pc = "done"
    /\ Len(aiCalls) = 1
    /\ ~aiCalls[1].raised
    /\ aiCalls[1].content.shape = "list"
    /\ Len(aiCalls[1].content.items) = 2
    /\ aiCalls[1].content.items[1].kind = "ok"
    /\ aiCalls[1].content.items[2].kind = "no_category"
    /\ summary # << >>
    /\ summary[1].updated = 0

\* the export delivered a batch of transactions
BatchExported ==
    /\ exported_data # << >>
    /\ exported_data[1].hasTransactions

\* the identifiers of the transactions of the batch whose booked flag is true
BookedIdsOf(trxs) ==
    LET booked == SelectSeq(trxs, LAMBDA t : t.booked = "true")
    IN  [i \in 1..Len(booked) |-> booked[i].id]

\* C6: of an exported batch of N transactions, the request holds exactly the
\* M booked ones; with M = 0 there is no backend call and no update call and
\* the summary reports Exported: N, Updated: 0.
C6_RequestHoldsTheBookedOnes ==
    BatchExported =>
        LET batch == exported_data[1].transactions
            M == Len(BookedIdsOf(batch))
        IN  /\ pc \in {"report", "classify"} => aiCalls = << >>
            /\ (pc \in {"step3", "update", "summary", "done"} /\ M > 0) =>
                  /\ Len(aiCalls) = 1
                  /\ aiCalls[1].request = BookedIdsOf(batch)
                  /\ Len(aiCalls[1].request) = M
            /\ M = 0 =>
                  /\ aiCalls = << >>
                  /\ updateCalls = << >>
                  /\ pc = "done" =>
                        summary = <<[exported |-> Len(batch), updated |-> 0]>>

C6_Witness ==
    /\ BatchExported
    /\ pc = "done"
    /\ Len(exported_data[1].transactions) = 2
    /\ exported_data[1].transactions[1].booked = "false"
    /\ exported_data[1].transactions[2].booked = "true"
    /\ Len(aiCalls) = 1
    /\ aiCalls[1].request = <<2>>

\* C7: with an unsupported provider, or with the provider's credential
\* variable unset or empty, the run ends in exit(1) and makes no external call.
C7_ConfigurationErrorIsFatal ==
    (AI_PROVIDER \notin {"openai", "anthropic", "deepseek"}
        \/ api_key \in {"unset", "empty"}) =>
            /\ pc \in {"preflight", "exit1"}
            /\ calls = << >>
            /\ exportProc = << >>
            /\ aiCalls = << >>
            /\ updateCalls = << >>
            /\ ai_client = "none"

C7_Witness ==
    /\ AI_PROVIDER = "deepseek"
    /\ api_key = "empty"
    /\ pc = "exit1"
    /\ HasPrinted("fatal")
    /\ calls = << >>

\* C8: when the export stage fails, no backend call and no update call is
\* issued.
C8_FailedExportMakesNoFurtherCall ==
    ExportFailed =>
        /\ aiCalls = << >>
        /\ updateCalls = << >>
        /\ CountCalls("ai") = 0
        /\ CountCalls("update") = 0

C8_Witness ==
    /\ ExportFailed
    /\ pc = "done"
    /\ exportProc[1].returncode # 0
    /\ exportProc[1].stdout = "plist"
    /\ exportProc[1].data.hasTransactions
    /\ Len(exportProc[1].data.transactions) > 0
    /\ exportProc[1].data.transactions[1].booked = "true"
    /\ calls = <<"export">>

\* the stage of an external call
StageOf(kind) ==
    CASE kind = "export" -> 1
      [] kind = "ai" -> 2
      [] kind = "update" -> 3

\* the calls made so far are in stage order, with at most one export call and
\* at most one backend call
InStageOrder ==
    /\ \A i, j \in 1..Len(calls) : i < j => StageOf(calls[i]) <= StageOf(calls[j])
    /\ CountCalls("export") <= 1
    /\ CountCalls("ai") <= 1
    /\ CountCalls("ai") = Len(aiCalls)
    /\ CountCalls("update") = Len(updateCalls)
    /\ (CountCalls("ai") + CountCalls("update") > 0) => calls[1] = "export"

\* C9, as stated: every run makes exactly one export call, and its calls are
\* in stage order with at most one backend call.
C9_EveryRunExportsOnce ==
    /\ InStageOrder
    /\ pc \in {"done", "exit1"} => CountCalls("export") = 1

\* C9, amended: the calls are in stage order with at most one backend call;
\* a run that passes the configuration pre-flight makes exactly one export
\* call, and a run the pre-flight stops makes none.
C9_StageOrder ==
    /\ InStageOrder
    /\ pc \in {"preflight", "exit1", "export"} => calls = << >>
    /\ pc \notin {"preflight", "exit1", "export"} => CountCalls("export") = 1

C9_Witness ==
    /\ pc = "done"
    /\ calls = <<"export", "ai", "update", "update">>

\* C10: the Updated count of the final summary is the number of entries of the
\* mapping, which is the number of update calls issued, whatever their exit
\* status; and "All targeted transactions updated successfully" is printed
\* exactly when the mapping is not empty.
C10_UpdatedCountsIssuedCalls ==
    summary # << >> =>
        /\ summary[1].updated = Len(updated_transactions_map)
        /\ summary[1].updated = Len(updateCalls)
        /\ summary[1].exported = Len(all_transactions)
        /\ HasPrinted("all_updated") <=> updated_transactions_map # << >>

C10_Witness ==
    /\ pc = "done"
    /\ summary # << >>
    /\ summary[1].updated = 2
    /\ Len(updateCalls) = 2
    /\ updateCalls[1].returncode # 0
    /\ updateCalls[2].returncode # 0
    /\ HasPrinted("update_error")
    /\ HasPrinted("all_updated")

====
